---- MODULE Spec2Model ----
(***************************************************************************)
(* Job/log relay of the droplet application: the in-memory log store       *)
(* (lib/job-logs-store.ts), the job resolver (lib/resolve-job.ts), the     *)
(* log ingestion endpoint (POST /api/jobs/:id/logs) and the SSE streaming  *)
(* endpoint (GET /api/jobs/:id/logs/stream); and the droplet lifecycle:    *)
(* POST /api/droplets, POST /api/droplets/:id/extend and the expiration    *)
(* reaper (handleCleanup).                                                 *)
(*                                                                         *)
(* Strings that the code inspects character by character (job tokens,      *)
(* droplet names) are sequences of one-character strings.  A missing       *)
(* userId (undefined, null or the empty string: all falsy in the code) is  *)
(* the empty string NoUser.  A nullable result is a set with at most one   *)
(* element: {} is null.                                                    *)
(***************************************************************************)
EXTENDS Integers, Sequences, FiniteSets, TLC

\* ------------------------------------------------------------------ bounds
MaxConns == 2        \* streaming requests made in one behaviour
MaxAppends == 2      \* lines appended to the store in one behaviour
MaxTokLen == 2       \* length of a job token in the resolver specification

Conns == 1..MaxConns
NoUser == ""
Users == {"u1", "u2"}

\* ------------------------------------------------------ the droplet table
\* Droplet records of the seeded table: droplet 2 carries a numeric-looking
\* name equal to droplet 1's id.
SeedDroplets ==
    { [dropletId |-> 1, dropletName |-> <<"a">>, userId |-> "u1"],
      [dropletId |-> 2, dropletName |-> <<"1">>, userId |-> "u2"] }

\* The job tokens the requests of the relay specification carry: an id, a name,
\* a numeric-looking name that is another droplet's id, an unknown id.
StreamTokens == { <<"1">>, <<"2">> }
IngestTokens == { <<"1">>, <<"2">>, <<"a">>, <<"9">> }

VARIABLES
    droplets,    \* the droplet table (prisma.droplet)
    store,       \* job-logs-store: dropletId -> [lines, listeners]
    appended,    \* history: the lines passed to appendLog, per dropletId
    phase,       \* per connection: position of its GET handler
    cUser,       \* per connection: the authenticated userId
    cToken,      \* per connection: the :id route parameter
    cJob,        \* per connection: the resolved dropletId ({} before)
    aborted,     \* per connection: request.signal has fired
    ctrl,        \* per connection: state of the stream controller
    timer,       \* per connection: the heartbeat interval is set
    invoked,     \* per connection: the lines its listener was called with
                 \*   (emptied when the connection is released)
    pushed,      \* per connection: the line events held by its stream
                 \*   (emptied when the stream is cancelled or released)
    cleanups,    \* per connection: runs of the abort handler
    subAt,       \* history: lines appended to the job when it subscribed
    rToken,      \* resolver call: the token
    rUser,       \* resolver call: the userId option
    rResult,     \* resolver call: <<>> while pending, then <<returned value>>
    posted,      \* the last POST /api/jobs/:id/logs: <<>> before any, then
                 \*   <<[jobId, body, status]>>
    now,         \* the clock (new Date()), in minutes
    doToken,     \* process.env.DIGITALOCEAN_API_TOKEN is set
    run,         \* the reaper invocation (handleCleanup) in progress or last
    prevDeleted, \* history: the dropletIds the invocation before `run` archived
    ext,         \* the extension request in progress or last
    other,       \* a second reaper invocation, suspended at an await
    sh           \* the bootstrap script and the shell that runs it

relayVars == <<store, appended, phase, cUser, cToken, cJob,
               aborted, ctrl, timer, invoked, pushed, cleanups, subAt>>
resolverVars == <<rToken, rUser, rResult>>
lifeVars == <<now, doToken, run, prevDeleted, ext>>
extraVars == <<other, sh>>
otherVars == <<posted, lifeVars, extraVars>>
vars == <<droplets, relayVars, resolverVars, otherVars>>

\* ------------------------------------------------------------- parseInt
Digits == <<"0", "1", "2", "3", "4", "5", "6", "7", "8", "9">>
IsDigit(ch) == \E i \in 1..10 : Digits[i] = ch
DigitVal(ch) == (CHOOSE i \in 1..10 : Digits[i] = ch) - 1
WhiteSpace == {" "}

RECURSIVE TrimStart(_)
TrimStart(s) ==
    IF s # <<>> /\ Head(s) \in WhiteSpace THEN TrimStart(Tail(s)) ELSE s

RECURSIVE DigitPrefix(_)
DigitPrefix(s) ==
    IF s # <<>> /\ IsDigit(Head(s)) THEN <<Head(s)>> \o DigitPrefix(Tail(s))
    ELSE <<>>

RECURSIVE DecValue(_)
DecValue(z) ==
    IF z = <<>> THEN 0
    ELSE 10 * DecValue(SubSeq(z, 1, Len(z) - 1)) + DigitVal(z[Len(z)])

\* parseInt(jobId, 10): leading white space skipped, an optional sign, then
\* the longest prefix of decimal digits; NaN when that prefix is empty.
ParseInt(s) ==
    LET t == TrimStart(s)
        neg == t # <<>> /\ Head(t) = "-"
        u == IF t # <<>> /\ Head(t) \in {"+", "-"} THEN Tail(t) ELSE t
        z == DigitPrefix(u)
    IN  IF z = <<>> THEN [nan |-> TRUE, val |-> 0]
        ELSE [nan |-> FALSE, val |-> (IF neg THEN 0 - DecValue(z) ELSE DecValue(z))]

\* ------------------------------------------------------------- resolver
\* prisma.droplet.findUnique({where: {dropletId: n}}): dropletId is unique.
findUnique(db, n) == { d \in db : d.dropletId = n }

\* The candidates of prisma.droplet.findFirst({where: {dropletName, userId?}}):
\* the call returns any one of them, or null when there is none.
findFirst(db, name, userId) ==
    { d \in db : d.dropletName = name /\ (userId # NoUser => d.userId = userId) }

\* The lookups in the other order: by name first, by id as the fallback.
LookedUpNameFirst(db, jobId, userId) ==
    LET parsed == ParseInt(jobId)
        byName == findFirst(db, jobId, userId)
    IN  IF byName # {} THEN byName
        ELSE IF ~parsed.nan THEN findUnique(db, parsed.val) ELSE {}

\* The id lookup alone, with no fallback to the name.
LookedUpIdOnly(db, jobId, userId) ==
    LET parsed == ParseInt(jobId)
    IN  IF ~parsed.nan THEN findUnique(db, parsed.val) ELSE {}

\* The record looked at after both lookups: the id lookup's when the token
\* parses and the id exists, else a candidate of the name lookup.
LookedUp(db, jobId, userId) ==
    LET parsed == ParseInt(jobId)
        byId == ~parsed.nan
        droplet == IF byId THEN findUnique(db, parsed.val) ELSE {}
    IN  IF droplet # {} THEN droplet ELSE findFirst(db, jobId, userId)

\* No owner check: whatever was found is returned.
OwnerUnchecked(d, userId) == {d}

\* The owner check on the record that was found.
OwnerChecked(d, userId) ==
    IF userId # NoUser /\ d.userId # userId THEN {} ELSE {d}

\* resolveJobToDropletId(jobId, {userId}): the set of values the call can
\* return, each {} (null) or {record}.
resolveJobToDropletId(db, jobId, userId) ==
    LET droplet == LookedUp(db, jobId, userId)
    IN  IF droplet = {} THEN {{}}
        ELSE { OwnerChecked(d, userId) : d \in droplet }

\* ------------------------------------------------------- job-logs-store
JobIds == { d.dropletId : d \in SeedDroplets }

getOrCreate(st, dropletId) ==
    IF dropletId \in DOMAIN st THEN st
    ELSE st @@ (dropletId :> [lines |-> <<>>, listeners |-> {}])

\* entry.lines.unshift(line)
PushFront(lines, line) == <<line>> \o lines

\* entry.lines.push(line)
PushLine(lines, line) == Append(lines, line)

\* The store after appendLog(dropletId, line).
appendLog(st, dropletId, line) ==
    LET st1 == getOrCreate(st, dropletId)
    IN  [st1 EXCEPT ![dropletId].lines = PushLine(@, line)]

\* One set of listeners for all jobs.
NotifiedAllJobs(st, dropletId) ==
    UNION { st[j].listeners : j \in DOMAIN st }

\* Only one of the job's listeners.
NotifiedFirstOnly(st, dropletId) ==
    LET fns == getOrCreate(st, dropletId)[dropletId].listeners
    IN  { c \in fns : \A b \in fns : c <= b }

\* A listener whose write fails throws, and the throw ends the forEach (and
\* appendLog) before any listener has been served.
NotifiedUnlessThrown(st, dropletId) ==
    LET fns == getOrCreate(st, dropletId)[dropletId].listeners
    IN  IF \E c \in fns : ctrl[c] # "readable" THEN {} ELSE fns

\* The listeners appendLog(dropletId, line) calls: entry.listeners.forEach.
Notified(st, dropletId) == getOrCreate(st, dropletId)[dropletId].listeners

\* The value getLines(dropletId) returns; the call leaves getOrCreate(st, _).
getLines(st, dropletId) == getOrCreate(st, dropletId)[dropletId].lines

\* The store after subscribe(dropletId, listener).
subscribe(st, dropletId, listener) ==
    LET st1 == getOrCreate(st, dropletId)
    IN  [st1 EXCEPT ![dropletId].listeners = @ \cup {listener}]

\* entry.listeners.clear()
UnsubscribeAll(st, dropletId, listener) ==
    [st EXCEPT ![dropletId].listeners = {}]

\* A handle that removes nothing.
UnsubscribeNothing(st, dropletId, listener) == st

\* The store after the handle subscribe returned is invoked:
\* entry.listeners.delete(listener).
unsubscribe(st, dropletId, listener) ==
    [st EXCEPT ![dropletId].listeners = @ \ {listener}]

hasListeners(st, dropletId) ==
    IF dropletId \in DOMAIN st
    THEN Cardinality(st[dropletId].listeners) > 0
    ELSE FALSE

\* ------------------------------------------------------ streaming route
\* send(line) of a connection: controller.enqueue throws unless the stream is
\* readable, and the error is swallowed.
Send(events, state, line) ==
    IF state = "readable" THEN Append(events, line) ELSE events

\* No replay of the buffered lines.
ReplayNone(events, lines) == events

\* The replay loop of start(): send(line) for each line of getLines, on the
\* fresh (readable) controller.
RECURSIVE ReplayFrom(_, _)
ReplayFrom(events, lines) ==
    IF lines = <<>> THEN events
    ELSE ReplayFrom(Send(events, "readable", Head(lines)), Tail(lines))

Replay(events, lines) == ReplayFrom(events, lines)

\* The resolver called without the userId option.
StreamResolveNoOwner(db, jobId, userId) ==
    resolveJobToDropletId(db, jobId, NoUser)

\* resolveJobToDropletId(jobId, { userId }) of the streaming route.
StreamResolve(db, jobId, userId) ==
    resolveJobToDropletId(db, jobId, userId)

TheJob(c) == CHOOSE j \in cJob[c] : TRUE
Registered(c) == \E j \in DOMAIN store : c \in store[j].listeners

\* GET /api/jobs/:id/logs/stream up to the await of the resolver: 401 with no
\* authenticated user.  (The [id] route segment is never empty.)
StreamGET(c, userId, jobId) ==
    /\ phase[c] = "idle"
    /\ \A b \in Conns : b < c => phase[b] # "idle"
    /\ IF userId = NoUser
       THEN /\ phase' = [phase EXCEPT ![c] = "r401"]
            /\ UNCHANGED <<cUser, cToken>>
       ELSE /\ phase' = [phase EXCEPT ![c] = "resolving"]
            /\ cUser' = [cUser EXCEPT ![c] = userId]
            /\ cToken' = [cToken EXCEPT ![c] = jobId]
    /\ UNCHANGED <<droplets, store, appended, cJob, aborted, ctrl,
                   timer, invoked, pushed, cleanups, subAt, resolverVars,
                   otherVars>>

\* The resolver returns: 404 on null, else the ReadableStream is constructed and
\* start(controller) runs synchronously: replay, subscribe, setInterval, and
\* the abort listener is added.
StreamStart(c) ==
    /\ phase[c] = "resolving"
    /\ \E resolved \in StreamResolve(droplets, cToken[c], cUser[c]) :
         IF resolved = {}
         THEN /\ phase' = [phase EXCEPT ![c] = "r404"]
              /\ UNCHANGED <<store, cJob, ctrl, timer, pushed, subAt>>
         ELSE LET dropletId == (CHOOSE d \in resolved : TRUE).dropletId
              IN  /\ phase' = [phase EXCEPT ![c] = "open"]
                  /\ cJob' = [cJob EXCEPT ![c] = {dropletId}]
                  /\ ctrl' = [ctrl EXCEPT ![c] = "readable"]
                  /\ pushed' = [pushed EXCEPT
                                  ![c] = Replay(<<>>, getLines(store, dropletId))]
                  /\ store' = subscribe(store, dropletId, c)
                  /\ timer' = [timer EXCEPT ![c] = TRUE]
                  /\ subAt' = [subAt EXCEPT ![c] = Len(appended[dropletId])]
    /\ UNCHANGED <<droplets, appended, cUser, cToken, aborted,
                   invoked, cleanups, resolverVars,
                   otherVars>>

\* Whether the interval is still set after a tick: the tick enqueues a comment
\* frame (frames carry no line and are not recorded), and clearInterval runs
\* when the enqueue throws.
HeartbeatTick(state) == state = "readable"

\* The heartbeat interval fires.
Heartbeat(c) ==
    /\ timer[c]
    /\ timer' = [timer EXCEPT ![c] = HeartbeatTick(ctrl[c])]
    /\ UNCHANGED <<droplets, store, appended, phase, cUser, cToken,
                   cJob, aborted, ctrl, invoked, pushed, cleanups, subAt,
                   resolverVars,
                   otherVars>>

\* request.signal fires (the client went away).  The abort listener exists only
\* once start() has added it: then it clears the interval, unsubscribes and
\* closes the controller, and the connection is released (what it was sent
\* is no longer kept).  A signal that fires while the handler still awaits the
\* resolver reaches no listener.
Abort(c) ==
    /\ ~aborted[c]
    /\ phase[c] \in {"resolving", "open"}
    /\ aborted' = [aborted EXCEPT ![c] = TRUE]
    /\ IF phase[c] = "open"
       THEN /\ phase' = [phase EXCEPT ![c] = "released"]
            /\ timer' = [timer EXCEPT ![c] = FALSE]
            /\ store' = unsubscribe(store, TheJob(c), c)
            /\ ctrl' = [ctrl EXCEPT ![c] = "closed"]
            /\ cleanups' = [cleanups EXCEPT ![c] = @ + 1]
            /\ invoked' = [invoked EXCEPT ![c] = <<>>]
            /\ pushed' = [pushed EXCEPT ![c] = <<>>]
            /\ subAt' = [subAt EXCEPT ![c] = 0]
       ELSE UNCHANGED <<phase, timer, store, ctrl, cleanups, invoked, pushed,
                        subAt>>
    /\ UNCHANGED <<droplets, appended, cUser, cToken, cJob, resolverVars,
                   otherVars>>

\* The consumer of the response body cancels the stream (the socket closed or
\* a write to it failed).  The underlying source has no cancel(): the stream
\* stops being readable and its queue is reset, so what was pushed is gone.
Cancel(c) ==
    /\ phase[c] = "open"
    /\ ctrl[c] = "readable"
    /\ ctrl' = [ctrl EXCEPT ![c] = "closed"]
    /\ pushed' = [pushed EXCEPT ![c] = <<>>]
    /\ UNCHANGED <<droplets, store, appended, phase, cUser, cToken, cJob,
                   aborted, timer, invoked, cleanups, subAt, resolverVars,
                   otherVars>>

\* ------------------------------------------------------ ingestion route
TotalAppended ==
    LET RECURSIVE Sum(_)
        Sum(S) == IF S = {} THEN 0
                  ELSE LET j == CHOOSE x \in S : TRUE
                       IN  Len(appended[j]) + Sum(S \ {j})
    IN  Sum(JobIds)

\* The relay only compares a line with the empty string, so the text of the
\* n-th line accepted by the store is written "n": a lost, repeated or
\* reordered line then shows in every sequence that carries it.
LineText == <<"1", "2", "3", "4", "5", "6", "7", "8", "9">>
NextLine == LineText[TotalAppended + 1]

\* Request bodies: unparseable JSON, JSON without a line, JSON with an empty
\* line, JSON with the next line of the runner.
Bodies ==
    { [json |-> FALSE, line |-> {}], [json |-> TRUE, line |-> {}],
      [json |-> TRUE, line |-> {""}], [json |-> TRUE, line |-> {NextLine}] }

\* String(body?.line): a missing line becomes the text "undefined".
LineOfNoDefault(body) ==
    IF body.json /\ body.line # {} THEN CHOOSE l \in body.line : TRUE
    ELSE "undefined"

\* request.json().catch(() => ({})), then String(body?.line ?? '').
LineOf(body) ==
    IF body.json /\ body.line # {} THEN CHOOSE l \in body.line : TRUE ELSE ""

\* The handler without its `if (!resolved)` return: an unresolved token is
\* answered {ok: true}.
IngestPOSTUnchecked(jobId, body, status) ==
    LET line == LineOf(body)
    IN  IF line = ""
        THEN /\ status = 200
             /\ UNCHANGED <<store, appended, invoked, pushed>>
        ELSE \E resolved \in resolveJobToDropletId(droplets, jobId, NoUser) :
               IF resolved = {}
               THEN /\ status = 200
                    /\ UNCHANGED <<store, appended, invoked, pushed>>
               ELSE LET dropletId == (CHOOSE d \in resolved : TRUE).dropletId
                        fns == Notified(store, dropletId)
                    IN  /\ status = 200
                        /\ TotalAppended < MaxAppends
                        /\ store' = appendLog(store, dropletId, line)
                        /\ appended' = [appended EXCEPT ![dropletId] = Append(@, line)]
                        /\ invoked' = [c \in Conns |->
                                         IF c \in fns THEN Append(invoked[c], line)
                                         ELSE invoked[c]]
                        /\ pushed' = [c \in Conns |->
                                        IF c \in fns THEN Send(pushed[c], ctrl[c], line)
                                        ELSE pushed[c]]

\* POST /api/jobs/:id/logs answering with `status`: 200 {ok: true} without a
\* resolver call when the line is empty, 404 when the token does not resolve,
\* else appendLog(resolved.dropletId, line) and 200 {ok: true}.
IngestPOST(jobId, body, status) ==
    LET line == LineOf(body)
    IN  IF line = ""
        THEN /\ status = 200
             /\ UNCHANGED <<store, appended, invoked, pushed>>
        ELSE \E resolved \in resolveJobToDropletId(droplets, jobId, NoUser) :
               IF resolved = {}
               THEN /\ status = 404
                    /\ UNCHANGED <<store, appended, invoked, pushed>>
               ELSE LET dropletId == (CHOOSE d \in resolved : TRUE).dropletId
                        fns == Notified(store, dropletId)
                    IN  /\ status = 200
                        /\ TotalAppended < MaxAppends
                        /\ store' = appendLog(store, dropletId, line)
                        /\ appended' = [appended EXCEPT ![dropletId] = Append(@, line)]
                        /\ invoked' = [c \in Conns |->
                                         IF c \in fns THEN Append(invoked[c], line)
                                         ELSE invoked[c]]
                        /\ pushed' = [c \in Conns |->
                                        IF c \in fns THEN Send(pushed[c], ctrl[c], line)
                                        ELSE pushed[c]]

Ingest(jobId, body) ==
    /\ \E status \in {200, 404} : IngestPOST(jobId, body, status)
    /\ UNCHANGED <<droplets, phase, cUser, cToken, cJob, aborted, ctrl, timer,
                   cleanups, subAt, resolverVars,
                   otherVars>>

\* ---------------------------------------------------- relay specification
RelayIdle ==
    /\ store = <<>>
    /\ appended = [j \in JobIds |-> <<>>]
    /\ phase = [c \in Conns |-> "idle"]
    /\ cUser = [c \in Conns |-> NoUser]
    /\ cToken = [c \in Conns |-> <<>>]
    /\ cJob = [c \in Conns |-> {}]
    /\ aborted = [c \in Conns |-> FALSE]
    /\ ctrl = [c \in Conns |-> "none"]
    /\ timer = [c \in Conns |-> FALSE]
    /\ invoked = [c \in Conns |-> <<>>]
    /\ pushed = [c \in Conns |-> <<>>]
    /\ cleanups = [c \in Conns |-> 0]
    /\ subAt = [c \in Conns |-> 0]

\* No reaper invocation and no extension request yet.
\* A droplet is on record in an invocation by its dropletId, the one field of
\* the loaded record the loop reads.
RunIdle ==
    [pc |-> "idle", expiredDroplets |-> {}, todo |-> {}, droplet |-> {},
     resp |-> "", called |-> {}, deleted |-> {}, deletedCount |-> 0,
     errors |-> {}, status |-> 0]
ExtIdle == [pc |-> "idle", dropletId |-> 0, newExpiration |-> 0, status |-> 0]

LifeIdle ==
    /\ now = 0
    /\ doToken = TRUE
    /\ run = RunIdle
    /\ prevDeleted = {}
    /\ ext = ExtIdle

\* No script has been generated.
ShIdle ==
    [pc |-> 0, script |-> <<>>, workloads |-> <<>>, STREAM_LOGS |-> TRUE,
     ran |-> <<>>, posts |-> 0, exit |-> {}]

ExtraIdle == other = RunIdle /\ sh = ShIdle

\* No ingestion request has been answered.
OtherIdle == posted = <<>> /\ LifeIdle /\ ExtraIdle

Init ==
    /\ droplets = SeedDroplets
    /\ RelayIdle
    /\ OtherIdle
    /\ rToken = <<>>
    /\ rUser = NoUser
    /\ rResult = <<>>

Next ==
    \/ \E c \in Conns, userId \in Users \cup {NoUser}, jobId \in StreamTokens :
         StreamGET(c, userId, jobId)
    \/ \E c \in Conns : StreamStart(c)
    \/ \E c \in Conns : Heartbeat(c)
    \/ \E c \in Conns : Abort(c)
    \/ \E c \in Conns : Cancel(c)
    \/ \E jobId \in IngestTokens, body \in Bodies : Ingest(jobId, body)

Spec == Init /\ [][Next]_vars

\* ------------------------------------------------ ingestion specification
\* The ingestion endpoint with its request and response on record, beside
\* one streaming connection that opens and is aborted.
Listening == {1}

IngestRequest(jobId, body, status) ==
    /\ IngestPOST(jobId, body, status)
    /\ posted' = <<[jobId |-> jobId, body |-> body, status |-> status]>>
    /\ UNCHANGED <<droplets, phase, cUser, cToken, cJob, aborted, ctrl, timer,
                   cleanups, subAt, resolverVars, extraVars, lifeVars>>

NextIngest ==
    \/ \E c \in Listening, userId \in Users \cup {NoUser}, jobId \in StreamTokens :
         StreamGET(c, userId, jobId)
    \/ \E c \in Listening : StreamStart(c)
    \/ \E c \in Listening : Abort(c)
    \/ \E jobId \in IngestTokens, body \in Bodies, status \in {200, 404} :
         IngestRequest(jobId, body, status)

SpecIngest == Init /\ [][NextIngest]_vars

\* ------------------------------------------- failed-write specification
\* Ingestion beside two streaming connections whose consumers may cancel;
\* an ingestion request is on record with the connections whose write of
\* its line failed (controller.enqueue threw inside send).
Watching == {1, 2}

IngestWrite(jobId, body, status) ==
    /\ IngestPOST(jobId, body, status)
    /\ posted' =
         <<[jobId |-> jobId, body |-> body, status |-> status,
            failed |-> IF status = 200 /\ LineOf(body) # ""
                       THEN { c \in UNION { store[j].listeners : j \in DOMAIN store } :
                                /\ cJob[c] = { d.dropletId :
                                                 d \in LookedUp(droplets, jobId, NoUser) }
                                /\ ctrl[c] # "readable" }
                       ELSE {}]>>
    /\ UNCHANGED <<droplets, phase, cUser, cToken, cJob, aborted, ctrl, timer,
                   cleanups, subAt, resolverVars, extraVars, lifeVars>>

NextSwallow ==
    \/ \E c \in Watching, userId \in Users, jobId \in StreamTokens :
         StreamGET(c, userId, jobId)
    \/ \E c \in Watching : StreamStart(c)
    \/ \E c \in Watching : Cancel(c)
    \/ \E jobId \in StreamTokens, body \in Bodies, status \in {200, 404} :
         IngestWrite(jobId, body, status)

SpecSwallow == Init /\ [][NextSwallow]_vars

\* ------------------------------------------------- resolver specification
\* One call of resolveJobToDropletId on a table, a token and a userId option
\* drawn from bounded sets.
TokChars == {"1", "2", "a", " ", "-"}
Tokens == UNION { [1..k -> TokChars] : k \in 1..MaxTokLen }
TableIds == {1, 12}
TableNames == { <<"1">>, <<"a">>, <<"1", "a">> }
Records == [dropletId : TableIds, dropletName : TableNames, userId : Users]
\* dropletId is unique in a table; dropletName is not.
Tables ==
    { db \in SUBSET Records :
        /\ Cardinality(db) <= 2
        /\ \A d, e \in db : d.dropletId = e.dropletId => d = e }

InitResolve ==
    /\ droplets \in Tables
    /\ rToken \in Tokens
    /\ rUser \in Users \cup {NoUser}
    /\ rResult = <<>>
    /\ RelayIdle
    /\ OtherIdle

\* The call returns: rResult holds the returned value.
ResolveCall ==
    /\ rResult = <<>>
    /\ \E r \in resolveJobToDropletId(droplets, rToken, rUser) :
         rResult' = <<r>>
    /\ UNCHANGED <<droplets, rToken, rUser, relayVars, otherVars>>

NextResolve == ResolveCall

SpecResolve == InitResolve /\ [][NextResolve]_vars

\* ------------------------------------------------- droplet lifecycle
\* Droplet records here carry the fields the reaper and the extension read
\* and write; a nullable timestamp is {} (null) or {t}.
MaxTime == 12        \* the clock and every stored timestamp stay within it

\* newExpiration.setMinutes(newExpiration.getMinutes() + 10)
ExtendMinutes == 10

\* A record stored before expirationTime existed: the column is null.
LegacyDroplet ==
    [dropletId |-> 3, dropletName |-> <<"c">>, userId |-> "u1",
     dropletStatus |-> "active", expirationTime |-> {}, isDeleted |-> FALSE,
     deletedAt |-> {}]

\* The seeded table: a droplet of each user, about to expire, and the legacy
\* record.
LifeSeed ==
    { [dropletId |-> 1, dropletName |-> <<"a">>, userId |-> "u1",
       dropletStatus |-> "active", expirationTime |-> {1}, isDeleted |-> FALSE,
       deletedAt |-> {}],
      [dropletId |-> 2, dropletName |-> <<"b">>, userId |-> "u2",
       dropletStatus |-> "active", expirationTime |-> {2}, isDeleted |-> FALSE,
       deletedAt |-> {}],
      LegacyDroplet }

\* Inputs of the lifecycle requests.
PostIds == {1}
ExtendIds == {1, 2, 3, 9}
Statuses == {"active", "archive"}
Durations == {{1}}
ProviderResponses == {"ok", "gone", "failed", "thrown"}

Max(a, b) == IF a >= b THEN a ELSE b
Min(a, b) == IF a <= b THEN a ELSE b

\* Math.max(1, Math.min(60, parseInt(String(durationMinutes)) || 30)) of an
\* integer durationMinutes, 30 when it is undefined or null: 0 is falsy.
ExpirationMinutes(durationMinutes) ==
    IF durationMinutes = {} THEN 30
    ELSE LET n == CHOOSE x \in durationMinutes : TRUE
         IN  Max(1, Min(60, IF n = 0 THEN 30 ELSE n))

\* prisma.droplet.update({where: {dropletId}, data}): the table with the
\* record of that id replaced by `updated`.
Updated(db, dropletId, updated) ==
    { d \in db : d.dropletId # dropletId } \cup {updated}

\* POST /api/droplets by an authenticated user: an existing dropletId gets the
\* posted dropletStatus (and ipAddress, updatedAt), else a record is created
\* that expires ExpirationMinutes from now.
DropletPOST(userId, dropletId, dropletStatus, durationMinutes) ==
    /\ userId # NoUser
    /\ LET existingDroplet == findUnique(droplets, dropletId)
           expirationTime == now + ExpirationMinutes(durationMinutes)
       IN  IF existingDroplet # {}
           THEN LET d == CHOOSE x \in existingDroplet : TRUE
                IN  droplets' = Updated(droplets, dropletId,
                                        [d EXCEPT !.dropletStatus = dropletStatus])
           ELSE droplets' = droplets \cup
                     {[dropletId |-> dropletId, dropletName |-> <<"d">>,
                       userId |-> userId, dropletStatus |-> dropletStatus,
                       expirationTime |-> {expirationTime},
                       isDeleted |-> FALSE, deletedAt |-> {}]}
    /\ UNCHANGED <<relayVars, resolverVars, extraVars, posted, lifeVars>>

\* The filter on expiration alone.
ExpiredOnly(allDroplets, t) ==
    { d \in allDroplets :
        d.expirationTime # {} /\ \A e \in d.expirationTime : e <= t }

\* Expired strictly before now.
ExpiredBefore(allDroplets, t) ==
    { d \in allDroplets :
        /\ d.isDeleted # TRUE
        /\ d.expirationTime # {}
        /\ \A e \in d.expirationTime : e < t }

\* allDroplets.filter(...): not marked deleted, an expirationTime, and
\* expirationTime <= now.
Expired(allDroplets, t) ==
    { d \in allDroplets :
        /\ d.isDeleted # TRUE
        /\ d.expirationTime # {}
        /\ \A e \in d.expirationTime : e <= t }

\* prisma.droplet.findMany({where: {dropletStatus: {not: 'archive'}}})
NotArchive(db) == { d \in db : d.dropletStatus # "archive" }

\* The loop moves on: the next droplet, or the response after the last.
RunNext(r, todo) ==
    [r EXCEPT !.todo = todo, !.droplet = {},
              !.pc = IF todo = {} THEN "done" ELSE "fetch",
              !.status = IF todo = {} THEN 200 ELSE 0]

\* handleCleanup up to the loop: the expired droplets are selected; with none
\* it answers deleted: 0, without the provider token it answers 500.
ReaperLoad ==
    /\ run.pc \in {"idle", "done"}
    /\ LET expiredDroplets ==
               { d.dropletId : d \in Expired(NotArchive(droplets), now) }
           r == [RunIdle EXCEPT !.expiredDroplets = expiredDroplets]
       IN  run' = IF expiredDroplets = {} THEN [r EXCEPT !.pc = "done", !.status = 200]
                  ELSE IF ~doToken THEN [r EXCEPT !.pc = "done", !.status = 500]
                  ELSE [r EXCEPT !.pc = "fetch", !.todo = expiredDroplets]
    /\ prevDeleted' = run.deleted
    /\ UNCHANGED <<droplets, relayVars, resolverVars, extraVars, posted, now, doToken, ext>>

\* The error is dropped.
ErrorDropped(errors, dropletId) == errors

\* The catch of the loop body: errors.push(errorMsg), one message for the
\* droplet of the iteration.
Caught(errors, dropletId) == errors \cup {dropletId}

\* Only a 2xx response counts.
DeleteOkOnly(resp) == resp = "ok"

\* fetch returned and !(!deleteResponse.ok && deleteResponse.status !== 404).
DeleteSucceeded(resp) == resp \in {"ok", "gone"}

\* One iteration up to the database write: the provider's DELETE is called for
\* the droplet and answers ok, 404 (gone), another status (failed) or the
\* fetch throws.
ReaperFetch(dropletId, resp) ==
    /\ run.pc = "fetch"
    /\ dropletId \in run.todo
    /\ LET called == [run EXCEPT !.called = @ \cup {dropletId}, !.resp = resp]
       IN  run' = IF DeleteSucceeded(resp)
                  THEN [called EXCEPT !.pc = "update", !.droplet = {dropletId}]
                  ELSE RunNext([called EXCEPT !.errors = Caught(@, dropletId)],
                               run.todo \ {dropletId})
    /\ UNCHANGED <<droplets, relayVars, resolverVars, extraVars, posted, now, doToken,
                   prevDeleted, ext>>

\* data: {isDeleted: true, deletedAt: new Date(), dropletStatus: 'archive'}
Archived(d, t) ==
    [d EXCEPT !.isDeleted = TRUE, !.deletedAt = {t}, !.dropletStatus = "archive"]

\* The rest of the iteration: the record is marked deleted in one update and
\* counted; the update throws when no record has that dropletId.
ReaperUpdate ==
    /\ run.pc = "update"
    /\ LET dropletId == CHOOSE x \in run.droplet : TRUE
           stored == findUnique(droplets, dropletId)
       IN  IF stored = {}
           THEN /\ run' = RunNext([run EXCEPT !.errors = Caught(@, dropletId)],
                                  run.todo \ {dropletId})
                /\ UNCHANGED droplets
           ELSE /\ droplets' = Updated(droplets, dropletId,
                                       Archived(CHOOSE x \in stored : TRUE, now))
                /\ run' = RunNext([run EXCEPT !.deleted = @ \cup {dropletId},
                                              !.deletedCount = @ + 1],
                                  run.todo \ {dropletId})
    /\ UNCHANGED <<relayVars, resolverVars, extraVars, posted, now, doToken, prevDeleted, ext>>

\* No check of isDeleted.
ExtendRefusedNever(droplet) == FALSE

\* if (droplet.isDeleted)
ExtendRefused(droplet) == droplet.isDeleted

\* Five minutes more.
NewExpirationFive(droplet, t) ==
    (IF droplet.expirationTime = {} THEN t
     ELSE CHOOSE e \in droplet.expirationTime : TRUE) + 5

\* droplet.expirationTime || new Date(), plus ten minutes.
NewExpiration(droplet, t) ==
    (IF droplet.expirationTime = {} THEN t
     ELSE CHOOSE e \in droplet.expirationTime : TRUE) + ExtendMinutes

\* POST /api/droplets/:id/extend up to the update: 401 without a user, 404
\* for no record, 403 for another user's, 400 for a deleted one.
ExtendFind(userId, dropletId) ==
    /\ ext.pc \in {"idle", "done"}
    /\ LET found == findUnique(droplets, dropletId)
           droplet == CHOOSE x \in found : TRUE
           answer(status) == [ExtIdle EXCEPT !.pc = "done", !.status = status]
       IN  IF userId = NoUser THEN ext' = answer(401)
           ELSE IF found = {} THEN ext' = answer(404)
           ELSE IF droplet.userId # userId THEN ext' = answer(403)
           ELSE IF ExtendRefused(droplet) THEN ext' = answer(400)
           ELSE /\ NewExpiration(droplet, now) <= MaxTime
                /\ ext' = [ExtIdle EXCEPT
                             !.pc = "write", !.dropletId = dropletId,
                             !.newExpiration = NewExpiration(droplet, now)]
    /\ UNCHANGED <<droplets, relayVars, resolverVars, extraVars, posted, now, doToken, run,
                   prevDeleted>>

\* The update of the extension: data {expirationTime: newExpiration}; it
\* throws (500) when no record has that dropletId.
ExtendUpdate ==
    /\ ext.pc = "write"
    /\ LET stored == findUnique(droplets, ext.dropletId)
       IN  IF stored = {}
           THEN /\ ext' = [ExtIdle EXCEPT !.pc = "done", !.status = 500]
                /\ UNCHANGED droplets
           ELSE /\ droplets' = Updated(droplets, ext.dropletId,
                                       [(CHOOSE x \in stored : TRUE) EXCEPT
                                          !.expirationTime = {ext.newExpiration}])
                /\ ext' = [ExtIdle EXCEPT !.pc = "done", !.status = 200]
    /\ UNCHANGED <<relayVars, resolverVars, extraVars, posted, now, doToken, run, prevDeleted>>

\* Time passes, to the instant of a stored expirationTime.
Instants == UNION { d.expirationTime : d \in droplets }

Tick(t) ==
    /\ t \in Instants
    /\ t > now /\ t <= MaxTime
    /\ now' = t
    /\ UNCHANGED <<droplets, relayVars, resolverVars, extraVars, posted, doToken, run,
                   prevDeleted, ext>>

InitLife ==
    /\ droplets = LifeSeed
    /\ RelayIdle
    /\ rToken = <<>> /\ rUser = NoUser /\ rResult = <<>>
    /\ posted = <<>>
    /\ now = 0
    /\ doToken \in BOOLEAN
    /\ run = RunIdle
    /\ prevDeleted = {}
    /\ ext = ExtIdle
    /\ ExtraIdle

NextLife ==
    \/ \E userId \in Users, dropletId \in PostIds, dropletStatus \in Statuses,
          durationMinutes \in Durations :
         DropletPOST(userId, dropletId, dropletStatus, durationMinutes)
    \/ ReaperLoad
    \/ \E dropletId \in run.todo, resp \in ProviderResponses :
         ReaperFetch(dropletId, resp)
    \/ ReaperUpdate
    \/ \E userId \in Users \cup {NoUser}, dropletId \in ExtendIds :
         ExtendFind(userId, dropletId)
    \/ ExtendUpdate
    \/ \E t \in 1..MaxTime : Tick(t)

SpecLife == InitLife /\ [][NextLife]_vars

\* ------------------------------------------------------------------ claims
Returned == rResult # <<>>
Open(c) == phase[c] = "open"
SinceSubscribed(c) ==
    SubSeq(appended[TheJob(c)], subAt[c] + 1, Len(appended[TheJob(c)]))

\* C1: a listener registered for a job is invoked with exactly the lines
\* appended to that job since it registered, in append order, each once.
C1_OrderedDelivery ==
    \A c \in Conns : Open(c) => invoked[c] = SinceSubscribed(c)

C1_Witness ==
    \E c \in Conns : Open(c) /\ Len(invoked[c]) >= 2

\* C2: getLines(j) returns exactly the lines appended to j, in append order
\* (empty when there were none), and a second getLines(j) returns the same.
C2_GetLines ==
    \A j \in JobIds :
        /\ getLines(store, j) = appended[j]
        /\ getLines(getOrCreate(store, j), j) = getLines(store, j)

C2_Witness ==
    /\ \E j \in JobIds : Len(appended[j]) >= 2
    /\ \E j \in JobIds : j \notin DOMAIN store

\* C3: once the handle of a listener was invoked, that listener is registered
\* nowhere and is never called again, while every other listener is still
\* registered and is still called with every line of its job.
C3_UnsubscribeExact ==
    \A c \in Conns :
        phase[c] = "released" =>
            /\ ~Registered(c)
            /\ invoked[c] = <<>>
            /\ \A b \in Conns \ {c} :
                   Open(b) => /\ b \in store[TheJob(b)].listeners
                              /\ invoked[b] = SinceSubscribed(b)

C3_Witness ==
    \E c, b \in Conns :
        /\ phase[c] = "released" /\ Open(b)
        /\ cJob[c] = cJob[b]
        /\ invoked[b] # <<>>

\* C4: hasListeners(j) is true exactly when some listener subscribed to j has
\* not had its unsubscribe handle invoked.
C4_HasListeners ==
    \A j \in JobIds :
        hasListeners(store, j) <=> \E c \in Conns : cJob[c] = {j} /\ cleanups[c] = 0

C4_Witness ==
    \E j \in JobIds :
        /\ ~hasListeners(store, j)
        /\ \E c \in Conns : cJob[c] = {j} /\ cleanups[c] = 1

\* C5: two listeners registered for the same job are called with the same
\* lines from the moment both are registered: a line goes to all of them.
C5_FanOut ==
    \A c, b \in Conns :
        (Open(c) /\ Open(b) /\ cJob[c] = cJob[b] /\ subAt[c] <= subAt[b]) =>
            invoked[b] = SubSeq(invoked[c], subAt[b] - subAt[c] + 1, Len(invoked[c]))

C5_Witness ==
    \E c, b \in Conns :
        /\ c # b /\ Open(c) /\ Open(b) /\ cJob[c] = cJob[b]
        /\ invoked[c] # <<>> /\ invoked[b] # <<>>

\* C6: while a streaming connection is readable, the line events pushed to it
\* are exactly the lines appended to its job (those buffered when it connected,
\* then the later ones), in append order.
C6_StreamComplete ==
    \A c \in Conns :
        (Open(c) /\ ctrl[c] = "readable") => pushed[c] = appended[TheJob(c)]

C6_Witness ==
    \E c \in Conns :
        /\ Open(c) /\ ctrl[c] = "readable" /\ ~aborted[c]
        /\ subAt[c] >= 1 /\ Len(pushed[c]) > subAt[c]

\* C7: a streaming connection that has ended (its abort signal has fired, or
\* a write to its closed stream has failed and stopped the heartbeat) has its
\* heartbeat stopped, its listener unregistered, and its cleanup done exactly
\* once.
Ended(c) ==
    /\ phase[c] \in {"open", "released"}
    /\ aborted[c] \/ (ctrl[c] = "closed" /\ ~timer[c])

C7_CleanupOnEveryExit ==
    \A c \in Conns :
        Ended(c) => /\ ~timer[c]
                    /\ ~Registered(c)
                    /\ cleanups[c] = 1

\* C8: a stream is opened and a listener registered only for the owner of the
\* job: a request without a user ends in 401, one whose token resolves to
\* nothing or to another user's record ends in 404, and neither registers a
\* listener or is sent a line.
C8_OwnerOnly ==
    \A c \in Conns :
        /\ phase[c] \in {"resolving", "r404", "open", "released"} => cUser[c] # NoUser
        /\ phase[c] \in {"open", "released"} =>
             \E d \in droplets : cJob[c] = {d.dropletId} /\ d.userId = cUser[c]
        /\ phase[c] \in {"idle", "resolving", "r401", "r404"} =>
             /\ ~Registered(c) /\ ~timer[c] /\ ctrl[c] = "none"
             /\ pushed[c] = <<>> /\ invoked[c] = <<>>

C8_Witness ==
    /\ \E c \in Conns :
         /\ phase[c] = "r404"
         /\ \E d \in droplets :
              d.dropletId = ParseInt(cToken[c]).val /\ d.userId # cUser[c]
    /\ \E c \in Conns : phase[c] = "r401"

\* C9: when the token parses as an integer n and a record has dropletId n, the
\* call returns that record or (owner mismatch) null, never a record found by
\* name; with no userId it returns that record.
C9_NumericFirst ==
    Returned =>
        \A d \in droplets :
            (~ParseInt(rToken).nan /\ d.dropletId = ParseInt(rToken).val) =>
                rResult[1] = (IF rUser = NoUser \/ d.userId = rUser THEN {d} ELSE {})

C9_Witness ==
    /\ Returned /\ rUser = NoUser
    /\ \E d, e \in droplets :
         /\ d.dropletId = ParseInt(rToken).val /\ ~ParseInt(rToken).nan
         /\ e # d /\ e.dropletName = rToken
         /\ rResult[1] = {d}

\* C10: with a userId supplied the call returns null or a record of that
\* user, by either lookup.
C10_OwnerScoped ==
    (Returned /\ rUser # NoUser) => \A d \in rResult[1] : d.userId = rUser

C10_Witness ==
    /\ Returned /\ rUser # NoUser /\ rResult[1] = {}
    /\ \E d \in droplets :
         /\ ~ParseInt(rToken).nan /\ d.dropletId = ParseInt(rToken).val
         /\ d.userId # rUser

\* C11: with no userId, a token that no id lookup finds but that is the name
\* of a record resolves to a record of that name, and the call returns null
\* exactly when the token parses to no record's id and names no record; on the
\* one-record table {42, "alpha", u1}: "42" and "alpha" resolve to it, "999"
\* does not, ("alpha", u1) resolves to it and ("42", u2) does not.
FoundById(db, jobId) ==
    \E d \in db : ~ParseInt(jobId).nan /\ d.dropletId = ParseInt(jobId).val
FoundByName(db, jobId) == \E d \in db : d.dropletName = jobId

Alpha == [dropletId |-> 42, dropletName |-> <<"a", "l", "p", "h", "a">>,
          userId |-> "u1"]

C11_NameFallback ==
    /\ (Returned /\ rUser = NoUser) =>
          /\ (FoundByName(droplets, rToken) /\ ~FoundById(droplets, rToken)) =>
                \E d \in droplets : d.dropletName = rToken /\ rResult[1] = {d}
          /\ rResult[1] = {} <=>
                (~FoundById(droplets, rToken) /\ ~FoundByName(droplets, rToken))
    /\ (Returned /\ \E d \in droplets : droplets = {d}) =>
          LET d == CHOOSE x \in droplets : TRUE
              hit == FoundById(droplets, rToken) \/ FoundByName(droplets, rToken)
          IN  rResult[1] =
                (IF hit /\ (rUser = NoUser \/ d.userId = rUser) THEN {d} ELSE {})
    /\ resolveJobToDropletId({Alpha}, <<"4", "2">>, NoUser) = {{Alpha}}
    /\ resolveJobToDropletId({Alpha}, Alpha.dropletName, NoUser) = {{Alpha}}
    /\ resolveJobToDropletId({Alpha}, <<"9", "9", "9">>, NoUser) = {{}}
    /\ resolveJobToDropletId({Alpha}, Alpha.dropletName, "u1") = {{Alpha}}
    /\ resolveJobToDropletId({Alpha}, <<"4", "2">>, "u2") = {{}}

C11_Witness ==
    /\ Returned /\ rUser = NoUser
    /\ ~FoundById(droplets, rToken)
    /\ \E d \in droplets : d.dropletName = rToken /\ rResult[1] = {d}
    /\ \E d \in droplets : d.dropletName # rToken

\* C12: an ingestion request whose token does not resolve is answered 404,
\* creates or changes no buffer and invokes no listener.
Unresolvable(jobId) == resolveJobToDropletId(droplets, jobId, NoUser) = {{}}
IngestFrame == UNCHANGED <<store, appended, invoked, pushed>>
HasNoLine(body) == ~body.json \/ body.line = {} \/ body.line = {""}

C12_UnresolvedAlways404 ==
    [][\A jobId \in IngestTokens, body \in Bodies, status \in {200, 404} :
         (IngestRequest(jobId, body, status) /\ Unresolvable(jobId)) =>
             (status = 404 /\ IngestFrame)]_vars

\* C12 as amended: the same of a request that carries a non-empty line.
C12_Unresolved404 ==
    [][\A jobId \in IngestTokens, body \in Bodies, status \in {200, 404} :
         (IngestRequest(jobId, body, status) /\ Unresolvable(jobId)
            /\ ~HasNoLine(body)) =>
             (status = 404 /\ IngestFrame)]_vars

C12_Witness ==
    /\ posted # <<>>
    /\ Unresolvable(posted[1].jobId) /\ ~HasNoLine(posted[1].body)
    /\ posted[1].status = 404
    /\ \E c \in Conns : Open(c)
    /\ \E j \in JobIds : appended[j] # <<>>

\* C13: a request with an empty or missing line or an unparseable body is
\* answered {ok: true} and changes no buffer and reaches no listener; a
\* request with a non-empty line and a resolvable token is answered
\* {ok: true} and adds that line once, at the end of the buffer of the
\* resolved dropletId, and to no other buffer.
TheLine(body) == CHOOSE l \in body.line : TRUE

AppendedOnce(dropletId, line) ==
    /\ getLines(store', dropletId) = Append(getLines(store, dropletId), line)
    /\ \A j \in (DOMAIN store') \ {dropletId} :
           j \in DOMAIN store /\ store'[j].lines = store[j].lines

C13_EmptyIsNoOp ==
    [][\A jobId \in IngestTokens, body \in Bodies, status \in {200, 404} :
         IngestRequest(jobId, body, status) =>
             /\ HasNoLine(body) => (status = 200 /\ IngestFrame)
             /\ (~HasNoLine(body) /\ ~Unresolvable(jobId)) =>
                   /\ status = 200
                   /\ \E r \in resolveJobToDropletId(droplets, jobId, NoUser) :
                        \E d \in r : AppendedOnce(d.dropletId, TheLine(body))]_vars

C13_Witness ==
    /\ posted # <<>> /\ HasNoLine(posted[1].body) /\ posted[1].status = 200
    /\ Unresolvable(posted[1].jobId)
    /\ \E c \in Conns : Open(c) /\ invoked[c] # <<>>
    /\ \E j \in JobIds : Len(appended[j]) = 2

\* ----------------------------------------------------- lifecycle claims
Record(dropletId) == CHOOSE d \in droplets : d.dropletId = dropletId
Stored(dropletId) == \E d \in droplets : d.dropletId = dropletId
Ids(records) == { d.dropletId : d \in records }
RunAnswered == run.pc = "done" /\ run.status = 200

\* The records the claim names: not marked deleted, with an expirationTime,
\* and that expirationTime at or before t.
Due(db, t) ==
    { d \in db : /\ ~d.isDeleted
                 /\ d.expirationTime # {}
                 /\ \A e \in d.expirationTime : e <= t }

\* What every step of an invocation keeps: calls are for selected droplets
\* only, every selected droplet has been called for when the invocation
\* answers, and a step writes no record but the one being archived.
ReaperTouchesSelectedOnly ==
    /\ (run.called \subseteq run.expiredDroplets)'
    /\ (RunAnswered => run.called = run.expiredDroplets)'
    /\ (\E dropletId \in run.todo, resp \in ProviderResponses :
            ReaperFetch(dropletId, resp)) => UNCHANGED droplets
    /\ ReaperUpdate =>
         /\ run.droplet \subseteq run.expiredDroplets
         /\ \A d \in droplets : d.dropletId \notin run.droplet => d \in droplets'

C15_FailureIsolated ==
    [][/\ \A dropletId \in run.todo, resp \in {"failed", "thrown"} :
            ReaperFetch(dropletId, resp) =>
                /\ dropletId \in run'.errors
                /\ dropletId \notin run'.deleted
                /\ UNCHANGED droplets
                /\ run'.todo = run.todo \ {dropletId}
                /\ run'.pc = IF run'.todo = {} THEN "done" ELSE "fetch"
       /\ (RunAnswered =>
             /\ run.errors \cup run.deleted = run.expiredDroplets
             /\ run.errors \cap run.deleted = {}
             /\ run.deletedCount = Cardinality(run.deleted))']_vars

C15_Witness ==
    /\ RunAnswered
    /\ run.errors = {1} /\ run.deleted = {2}
    /\ ~Record(1).isDeleted /\ Record(1).dropletStatus = "active"
    /\ Record(2).isDeleted

\* C16: a provider delete that succeeds or answers 404 is no error, and the
\* record is then written once: isDeleted = true, deletedAt = the time of the
\* write, dropletStatus = 'archive', nothing else changed; it is counted as
\* deleted.
C16_GoneIsSuccess ==
    [][/\ \A dropletId \in run.todo, resp \in {"ok", "gone"} :
            ReaperFetch(dropletId, resp) =>
                /\ run'.pc = "update" /\ run'.droplet = {dropletId}
                /\ run'.errors = run.errors
       /\ (ReaperUpdate /\ \A dropletId \in run.droplet : Stored(dropletId)) =>
            \A dropletId \in run.droplet :
                /\ droplets' =
                     (droplets \ {Record(dropletId)}) \cup
                       {[Record(dropletId) EXCEPT !.isDeleted = TRUE,
                                                  !.deletedAt = {now},
                                                  !.dropletStatus = "archive"]}
                /\ run'.deletedCount = run.deletedCount + 1
                /\ run'.deleted = run.deleted \cup {dropletId}
                /\ run'.errors = run.errors]_vars

C16_Witness ==
    /\ run.resp = "gone" /\ run.pc \in {"fetch", "done"}
    /\ run.deletedCount = 1 /\ run.errors = {}
    /\ \E d \in droplets : d.dropletId \in run.deleted /\ d.deletedAt = {now}

\* C17: a record with isDeleted = true has dropletStatus 'archive' and a
\* deletedAt, and isDeleted of a stored record never goes from true to false.
C17_DeletedIsTerminal ==
    [][/\ (\A d \in droplets :
             d.isDeleted => d.dropletStatus = "archive" /\ d.deletedAt # {})'
       /\ \A d \in droplets :
             d.isDeleted => \A e \in droplets' :
                               e.dropletId = d.dropletId => e.isDeleted]_vars

\* C18: an invocation calls the provider for no droplet that the invocation
\* before it archived.
C18_NoSecondDelete ==
    run.called \cap prevDeleted = {}

C18_Witness ==
    /\ RunAnswered
    /\ prevDeleted # {}
    /\ \A dropletId \in prevDeleted :
         /\ Record(dropletId).isDeleted
         /\ \A e \in Record(dropletId).expirationTime : e <= now
    /\ run.expiredDroplets = {}

\* C19: the write of an extension that succeeds sets the expirationTime T of
\* its record to T + 10 minutes and changes nothing else in the table.
C19_ExtendsByTen ==
    [][(ExtendUpdate /\ ext'.status = 200) =>
          /\ Stored(ext.dropletId)
          /\ \A T \in Record(ext.dropletId).expirationTime :
                droplets' =
                  (droplets \ {Record(ext.dropletId)}) \cup
                    {[Record(ext.dropletId) EXCEPT
                        !.expirationTime = {T + 10}]}]_vars

C19_Witness ==
    /\ ext.pc = "done" /\ ext.status = 200
    /\ Record(1).expirationTime = {11}
    /\ ~Record(1).isDeleted

\* C20: an extension request for a record with isDeleted = true is answered
\* 400, and one by a user who is not the record's owner is answered 403; both
\* write nothing.
C20_DeletedAlways400 ==
    [][\A userId \in Users, dropletId \in ExtendIds :
          (ExtendFind(userId, dropletId) /\ Stored(dropletId)) =>
              /\ Record(dropletId).isDeleted =>
                    (ext'.status = 400 /\ ext'.pc = "done" /\ UNCHANGED droplets)
              /\ Record(dropletId).userId # userId =>
                    (ext'.status = 403 /\ ext'.pc = "done" /\ UNCHANGED droplets)]_vars

\* C20 as amended: 400 is the answer to the owner of the deleted record.
C20_Deleted400Owner ==
    [][\A userId \in Users, dropletId \in ExtendIds :
          (ExtendFind(userId, dropletId) /\ Stored(dropletId)) =>
              /\ (Record(dropletId).isDeleted /\ Record(dropletId).userId = userId) =>
                    (ext'.status = 400 /\ ext'.pc = "done" /\ UNCHANGED droplets)
              /\ Record(dropletId).userId # userId =>
                    (ext'.status = 403 /\ ext'.pc = "done" /\ UNCHANGED droplets)]_vars

C20_Witness ==
    /\ ext.pc = "done" /\ ext.status = 400
    /\ \E d \in droplets : d.isDeleted

\* ------------------------------------------------------ resolver claims
\* The decimal representation of a non-negative integer.
RECURSIVE Decimal(_)
Decimal(n) ==
    IF n < 10 THEN <<Digits[n + 1]>>
    ELSE Decimal(n \div 10) \o <<Digits[(n % 10) + 1]>>

Names(d, jobId) == jobId = Decimal(d.dropletId) \/ jobId = d.dropletName

\* C27: the call returns a record only for a token that is the decimal
\* representation of the record's dropletId or is the record's dropletName.
C27_ResolverSound ==
    Returned => \A d \in rResult[1] : Names(d, rToken)

\* C28: with a userId the call returns null only when that user owns no
\* record whose dropletId in decimal, or whose dropletName, is the token.
C28_OwnerScopedComplete ==
    (Returned /\ rUser # NoUser /\ rResult[1] = {}) =>
        ~ \E d \in droplets : d.userId = rUser /\ Names(d, rToken)

\* C22: when the write of a line to a connection fails, appendLog still
\* completes: the line is at the end of the buffer, every other listener of
\* the job is called with it and every readable one is sent it, and the
\* listeners of the job (the failing one among them) stay registered.
C22_FailedWriteSwallowed ==
    [][\A jobId \in StreamTokens, body \in Bodies :
          (IngestWrite(jobId, body, 200) /\ posted'[1].failed # {}) =>
              \A c \in posted'[1].failed :
                LET j == TheJob(c)
                    line == TheLine(body)
                IN  /\ getLines(store', j) = Append(getLines(store, j), line)
                    /\ store'[j].listeners = store[j].listeners
                    /\ c \in store'[j].listeners
                    /\ \A b \in store[j].listeners :
                         /\ invoked'[b] = Append(invoked[b], line)
                         /\ ctrl[b] = "readable" =>
                              pushed'[b] = Append(pushed[b], line)]_vars

C22_Witness ==
    /\ posted # <<>>
    /\ \E c \in posted[1].failed, b \in Conns :
         /\ b # c /\ cJob[b] = cJob[c] /\ Open(b) /\ ctrl[b] = "readable"
         /\ Registered(c)
         /\ pushed[b] # <<>>
         /\ pushed[b][Len(pushed[b])] = TheLine(posted[1].body)

\* ------------------------------------------ extension beside the reaper
\* C24: the expirationTime of a record with isDeleted = true never changes,
\* and the write of an extension never lands on such a record.
C24_DeletedNeverExtended ==
    [][/\ \A d \in droplets : d.isDeleted =>
             \A e \in droplets' : e.dropletId = d.dropletId =>
                 e.expirationTime = d.expirationTime
       /\ (ExtendUpdate /\ Stored(ext.dropletId)
             /\ Record(ext.dropletId).isDeleted) => droplets' = droplets]_vars

\* C25: at the moment of a provider delete call the stored expirationTime of
\* the droplet is not later than the current time.
C25_ReapsOnlyExpiredAtCall ==
    [][\A dropletId \in run.todo, resp \in ProviderResponses :
          (ReaperFetch(dropletId, resp) /\ Stored(dropletId)) =>
              \A e \in Record(dropletId).expirationTime : e <= now]_vars

\* ------------------------------------------------- the bootstrap script
\* generateWorkloadScript renders the script as text; here it is the list of
\* its statements. A docker statement names its image; a statement that is
\* piped into stream_log, or is a call of log, may post lines.
Images == {"a", "b"}
MaxWorkloads == 2
MaxLines == 1

RECURSIVE SeqsUpTo(_, _)
SeqsUpTo(S, n) ==
    IF n = 0 THEN { <<>> }
    ELSE LET shorter == SeqsUpTo(S, n - 1)
         IN  shorter \cup { Append(q, x) : q \in shorter, x \in S }

Log == [op |-> "log", image |-> "", gpu |-> FALSE]

\* workloads.map((w) => `...`): header, pull, capped startup run, silent run.
WorkloadBlock(w, gpu) ==
    << Log,
       Log, [op |-> "pull", image |-> w, gpu |-> FALSE],
       Log, [op |-> "startup", image |-> w, gpu |-> gpu],
       Log, [op |-> "silent", image |-> w, gpu |-> gpu] >>

\* .join('\n') of the blocks, in the order of the list.
RECURSIVE workloadBlocks(_, _)
workloadBlocks(workloads, gpu) ==
    IF workloads = <<>> THEN <<>>
    ELSE WorkloadBlock(Head(workloads), gpu) \o workloadBlocks(Tail(workloads), gpu)

\* The returned script: platform setup, the blocks, the privacy boundary and
\* the last log line.
generateWorkloadScript(workloads, gpu) ==
    << Log, [op |-> "setup", image |-> "", gpu |-> FALSE] >>
        \o workloadBlocks(workloads, gpu)
        \o << Log, [op |-> "export", image |-> "", gpu |-> FALSE],
              Log, [op |-> "exit", image |-> "", gpu |-> FALSE] >>

\* Lines are posted whatever STREAM_LOGS is.
StreamsAlways(STREAM_LOGS) == TRUE

\* if [ "${STREAM_LOGS:-true}" = "true" ] in log and stream_log
Streams(STREAM_LOGS) == STREAM_LOGS = TRUE

\* The job's config is rendered for a list of workloads.
Generate(workloads, gpu) ==
    /\ sh.pc = 0
    /\ sh' = [ShIdle EXCEPT !.pc = 1, !.workloads = workloads,
                            !.script = generateWorkloadScript(workloads, gpu)]
    /\ UNCHANGED <<droplets, relayVars, resolverVars, posted, lifeVars, other>>

\* The shell runs the next statement. `ok` is its exit status under
\* set -euo pipefail; `lines` is the number of lines whose curl reached the
\* backend (a failed curl is swallowed by || true).
ShStep(ok, lines) ==
    /\ sh.pc \in 1..Len(sh.script)
    /\ LET stmt == sh.script[sh.pc]
           docker == stmt.op \in {"pull", "startup", "silent"}
           piped == stmt.op \in {"setup", "pull", "startup"}
           ranNow == IF docker
                     THEN Append(sh.ran, [op |-> stmt.op, image |-> stmt.image])
                     ELSE sh.ran
       IN  /\ lines > 0 => (stmt.op = "log" \/ piped) /\ Streams(sh.STREAM_LOGS)
           /\ ~ok => (docker \/ stmt.op = "setup")
           /\ sh' = IF stmt.op = "exit"
                    THEN [sh EXCEPT !.pc = 0, !.exit = {0}]
                    ELSE IF ~ok
                    THEN [sh EXCEPT !.pc = 0, !.exit = {1}, !.ran = ranNow,
                                    !.posts = @ + lines]
                    ELSE [sh EXCEPT !.pc = @ + 1, !.ran = ranNow,
                                    !.posts = @ + lines,
                                    !.STREAM_LOGS =
                                        IF stmt.op = "export" THEN FALSE ELSE @]
    /\ UNCHANGED <<droplets, relayVars, resolverVars, posted, lifeVars, other>>

InitScript ==
    /\ droplets = SeedDroplets
    /\ RelayIdle
    /\ rToken = <<>> /\ rUser = NoUser /\ rResult = <<>>
    /\ OtherIdle

NextScript ==
    \/ \E workloads \in SeqsUpTo(Images, MaxWorkloads), gpu \in BOOLEAN :
         Generate(workloads, gpu)
    \/ \E ok \in BOOLEAN, lines \in 0..MaxLines : ShStep(ok, lines)

SpecScript == InitScript /\ [][NextScript]_vars

\* --------------------------------------------------------- script claims
\* The docker statements of a list of workloads, in list order: for each its
\* pull, its capped startup run and its silent run.
RECURSIVE InListOrder(_)
InListOrder(workloads) ==
    IF workloads = <<>> THEN <<>>
    ELSE << [op |-> "pull", image |-> Head(workloads)],
            [op |-> "startup", image |-> Head(workloads)],
            [op |-> "silent", image |-> Head(workloads)] >>
             \o InListOrder(Tail(workloads))

IsPrefix(p, q) == Len(p) <= Len(q) /\ p = SubSeq(q, 1, Len(p))

\* C23: the script runs the workloads' statements in list order (pull, capped
\* startup run, silent run), STREAM_LOGS becomes false only after the last
\* workload's silent run, and while it is false no line is posted.
C23_OrderedThenPrivate ==
    [][/\ IsPrefix(sh'.ran, InListOrder(sh'.workloads))
       /\ sh'.STREAM_LOGS = FALSE => sh'.ran = InListOrder(sh'.workloads)
       /\ \A ok \in BOOLEAN, lines \in 0..MaxLines :
            (ShStep(ok, lines) /\ sh.STREAM_LOGS = FALSE) =>
                sh'.posts = sh.posts]_vars

C23_Witness ==
    /\ sh.exit = {0}
    /\ sh.STREAM_LOGS = FALSE
    /\ Len(sh.workloads) = 2 /\ sh.workloads[1] # sh.workloads[2]
    /\ sh.posts > 0

\* ------------------------------------------- the droplet table's routes
\* Inputs of POST and DELETE /api/droplets for a droplet not yet on record.
CreateIds == {4}
PostedDurations == { {}, {0}, {1}, {2}, {60}, {61}, {0 - 3} }

\* DELETE /api/droplets?dropletId=... by an authenticated user: the droplet is
\* deleted at the provider (a 404 there is passed over), then its record is
\* deleted; any other provider answer, a missing token or a missing record
\* ends the request with an error and the table as it was.
DropletDELETE(userId, dropletId, resp) ==
    /\ userId # NoUser
    /\ droplets' =
         IF doToken /\ resp \in {"ok", "gone"}
         THEN { d \in droplets : d.dropletId # dropletId }
         ELSE droplets
    /\ UNCHANGED <<relayVars, resolverVars, posted, lifeVars, extraVars>>

InitDroplets ==
    /\ droplets = {}
    /\ RelayIdle
    /\ rToken = <<>> /\ rUser = NoUser /\ rResult = <<>>
    /\ posted = <<>>
    /\ now = 0
    /\ doToken \in BOOLEAN
    /\ run = RunIdle
    /\ prevDeleted = {}
    /\ ext = ExtIdle
    /\ ExtraIdle

NextDroplets ==
    \/ \E userId \in Users, dropletId \in CreateIds, dropletStatus \in Statuses,
          durationMinutes \in PostedDurations :
         DropletPOST(userId, dropletId, dropletStatus, durationMinutes)
    \/ \E userId \in Users, dropletId \in CreateIds, resp \in ProviderResponses :
         DropletDELETE(userId, dropletId, resp)
    \/ \E t \in 1..MaxTime : Tick(t)

SpecDroplets == InitDroplets /\ [][NextDroplets]_vars

\* ------------------------------------------------- droplet route claims
\* C29: a DELETE or a POST for an existing dropletId by an authenticated user
\* who is not the record's userId leaves the record in the table, unchanged.
C29_OwnerOnly ==
    [][\A userId \in Users, d \in droplets :
          (/\ d.userId # userId
           /\ \/ \E resp \in ProviderResponses :
                   DropletDELETE(userId, d.dropletId, resp)
              \/ \E dropletStatus \in Statuses, durationMinutes \in PostedDurations :
                   DropletPOST(userId, d.dropletId, dropletStatus, durationMinutes))
          => d \in droplets']_vars

\* max(1, min(60, durationMinutes)), 30 for an absent durationMinutes.
Clamped(durationMinutes) ==
    IF durationMinutes = {} THEN 30
    ELSE LET n == CHOOSE x \in durationMinutes : TRUE
         IN  Max(1, Min(60, n))

\* C30: a POST that creates the record stores expirationTime = now + m with
\* m = 30 for an absent durationMinutes and max(1, min(60, durationMinutes))
\* for every integer; a POST for an existing dropletId leaves expirationTime
\* as it was.
C30_ClampedExpiration ==
    [][\A userId \in Users, dropletId \in CreateIds, dropletStatus \in Statuses,
          durationMinutes \in PostedDurations :
          DropletPOST(userId, dropletId, dropletStatus, durationMinutes) =>
              /\ \E e \in droplets' : e.dropletId = dropletId
              /\ \A e \in droplets' : e.dropletId = dropletId =>
                   e.expirationTime =
                     IF Stored(dropletId) THEN Record(dropletId).expirationTime
                     ELSE {now + Clamped(durationMinutes)}]_vars

\* --------------------------------------------- overlapping invocations
\* setInterval(runCleanup, 10 s) requests the route again whether or not the
\* request before has been answered, and the route takes no lock: a second
\* handleCleanup runs beside the first. `run` is the invocation that takes
\* the next step and `other` the one suspended at its await.
Switch ==
    /\ run # other
    /\ run' = other
    /\ other' = run
    /\ UNCHANGED <<droplets, relayVars, resolverVars, posted, now, doToken,
                   prevDeleted, ext, sh>>

NextOverlap ==
    \/ ReaperLoad
    \/ \E dropletId \in run.todo, resp \in ProviderResponses :
         ReaperFetch(dropletId, resp)
    \/ ReaperUpdate
    \/ Switch
    \/ \E t \in 1..MaxTime : Tick(t)

SpecOverlap == InitLife /\ [][NextOverlap]_vars

\* C26: while another invocation is in its loop, an invocation calls the
\* provider's delete for no droplet the other has called it for, and no droplet
\* is counted as deleted by both.
C26_OneCallPerInstance ==
    [][/\ \A dropletId \in run.todo, resp \in ProviderResponses :
            (ReaperFetch(dropletId, resp) /\ other.pc \in {"fetch", "update"})
                => dropletId \notin other.called
       /\ run'.deleted \cap other'.deleted = {}]_vars

\* ------------------------------------------------- the reaper, triggered
\* The cron script requests the cleanup route again and again, each run goes
\* on to its next step, and the provider's delete of a droplet, tried again
\* and again, succeeds or answers 404. No extension is requested.
InitReap == InitLife /\ doToken = TRUE

NextReap ==
    \/ \E userId \in Users, dropletId \in PostIds, dropletStatus \in Statuses,
          durationMinutes \in Durations :
         DropletPOST(userId, dropletId, dropletStatus, durationMinutes)
    \/ ReaperLoad
    \/ \E dropletId \in run.todo, resp \in ProviderResponses :
         ReaperFetch(dropletId, resp)
    \/ ReaperUpdate
    \/ \E t \in 1..MaxTime : Tick(t)

SpecReap ==
    /\ InitReap
    /\ [][NextReap]_vars
    /\ WF_vars(ReaperLoad)
    /\ WF_vars(ReaperUpdate)
    /\ \A dropletId \in { d.dropletId : d \in LifeSeed } :
         SF_vars(\E resp \in {"ok", "gone"} : ReaperFetch(dropletId, resp))

\* C21: a droplet whose expirationTime has been reached is eventually marked
\* isDeleted = true with dropletStatus 'archive', and stays so from then on.
Reached(dropletId) ==
    /\ Stored(dropletId)
    /\ Record(dropletId).expirationTime # {}
    /\ \A e \in Record(dropletId).expirationTime : e <= now

IsArchived(dropletId) ==
    /\ Stored(dropletId)
    /\ Record(dropletId).isDeleted
    /\ Record(dropletId).dropletStatus = "archive"

C21_EventuallyArchived ==
    \A dropletId \in { d.dropletId : d \in LifeSeed } :
        [](Reached(dropletId) => <>[]IsArchived(dropletId))

====
